---- MODULE Spec2Model ----
(***************************************************************************)
(* State machine of the deep research agent of alias                       *)
(* (alias/agent/agents/_deep_research_agent.py): the subtask stack, the    *)
(* decomposition / follow-up / reflection engine, the report condenser and *)
(* the reasoning-acting loop that drives them through the lifecycle hooks. *)
(* A second state machine, SpecBrowser, is the reasoning-acting loop of    *)
(* the browser agent (alias/agent/agents/_browser_agent.py); a third,      *)
(* SpecPlanner, is the meta planner (alias/agent/agents/_meta_planner.py)  *)
(* with its lifecycle hooks (_agent_hooks.py) and its worker pool.         *)
(***************************************************************************)
EXTENDS Integers, Sequences, FiniteSets, TLC

\* ---------------------------------------------------------------- bounds
MaxMaxDepth == 2    \* max_depth is drawn from 1..MaxMaxDepth at construction
MaxReplies == 2     \* replies started on one agent instance
MaxIters == 2       \* max_iters given to the constructor (default 30)
MaxSteps == 2       \* reasoning steps of one agent instance, over all replies
MaxBrowserReplies == 2   \* replies started on one browser agent
MaxBrowserIters == 2     \* max_iters of the browser agent (default 50)
MaxMemLength == 3        \* max_mem_length of the browser agent (default 20)
MaxToolCalls == 2        \* tool_use blocks of one reasoning message
MaxSubtasks == 2         \* subtasks a decomposition or a revision yields
MaxBrowserSteps == 2     \* iterations of one browser agent, over all replies
MaxPlannerReplies == 2   \* replies started on one meta planner
MaxPlannerSteps == 3     \* reasoning steps of one meta planner, over all replies
MaxPlannerMaxIters == 2  \* the max_iters a meta planner is constructed with
MaxAgentMaxIter == 3     \* the AGENT_MAX_ITER setting read by constants.py

\* ------------------------------------------------------------- constants
NULL == "null"
AgentName == "Deep_Research_Assistant"
search_function == "tavily_search"
extract_function == "tavily_extract"
summarize_function == "summarize_intermediate_results"
reflect_function == "reflect_failure"
finish_subtask_function == "finish_current_subtask"
finish_function_name == "generate_response"

VARIABLES
    max_depth,            \* self.max_depth
    current_subtask,      \* self.current_subtask, a sequence of SubTaskItem
    report_index,         \* self.report_index
    files,                \* ordinals k with <base>_inprocess_report_k.md on disk
    detailed_writes,      \* times <base>_detailed_report.md was written
    memory,               \* self.memory, a sequence of messages
    search_call_buffer,   \* self.search_call_buffer, ids of buffered search calls
    pc,                   \* position of the reply loop
    iters,                \* iterations of the current reply
    tool_call,            \* tool chosen by the last reasoning step
    replies,              \* replies started so far
    steps,                \* reasoning steps made so far
    judged_calls,         \* ids of the search calls given to a follow-up judge
    last                  \* the last operation: inputs, pre-state, response

dr_vars == << max_depth, current_subtask, report_index, files,
              detailed_writes, memory, search_call_buffer, pc, iters,
              tool_call, replies, steps, judged_calls, last >>

\* the browser agent
VARIABLES
    b_parallel,           \* self.parallel_tool_calls
    b_memory,             \* self.memory, a sequence of messages
    b_pc,                 \* position of BrowserAgent.reply
    b_replies,            \* replies started so far
    b_iter,               \* self.iter_n
    b_steps,              \* iterations begun so far, over all replies
    b_calls,              \* tool_use blocks of the reasoning message acted on
    b_responses,          \* what _acting returned for each of them so far
    b_subtasks,           \* len(self.subtasks)
    b_subtask_idx,        \* self.current_subtask_idx
    b_current,            \* self.current_subtask: none, a subtask, the task
    b_last                \* the last operation of the browser agent

browser_vars == << b_parallel, b_memory, b_pc, b_replies, b_iter, b_steps,
                   b_calls,
                   b_responses, b_subtasks, b_subtask_idx, b_current,
                   b_last >>

\* the meta planner
VARIABLES
    p_memory,             \* self.memory, a sequence of messages
    p_saved,              \* the agent state held by the session service
    p_pool,               \* self.worker_manager.worker_pool, by worker name
    p_pc,                 \* position of the reply loop
    p_replies,            \* replies started so far
    p_steps,              \* reasoning steps made so far
    p_call,               \* tool call of the last reasoning message
    p_init_max_iters,     \* the max_iters argument of __init__
    p_max_iters,          \* self.max_iters
    p_iters,              \* iterations of the reply loop in this reply
    p_agent,              \* planner_mode, work_pattern, _sys_prompt, whether
                          \* the "planning" tool group is active, and whether
                          \* the worker toolkit has the file system tools
    p_last                \* the last operation of the meta planner

planner_vars == << p_memory, p_saved, p_pool, p_pc, p_replies, p_steps,
                   p_call, p_init_max_iters, p_max_iters, p_iters, p_agent,
                   p_last >>

vars == << dr_vars, browser_vars, planner_vars >>

\* ------------------------------------------------------------ data model
SubTaskItem(o) ==
    [objective |-> o, working_plan |-> NULL, knowledge_gaps |-> NULL]

Query(n) == << "query", n >>
SubObjective == << "sub", 0 >>

Msg(kind, name, role, use, res, id, report) ==
    [kind |-> kind, name |-> name, role |-> role, use |-> use, res |-> res,
     id |-> id, report |-> report]

NoId == << 0, 0 >>
QueryMsg == Msg("query", "user", "user", "none", "none", NoId, FALSE)
PromptMsg == Msg("prompt", "user", "user", "none", "none", NoId, FALSE)
ReasoningMsg(t) == Msg("reasoning", AgentName, "assistant", t, "none", NoId, FALSE)
ToolResultMsg(t, id) ==
    Msg("tool_result", "system", "system", "none", t,
        IF t = search_function THEN id ELSE NoId, FALSE)
FollowUpMsg == Msg("follow_up", AgentName, "assistant", "none", "none", NoId, FALSE)
ExtractUseMsg == Msg("extract_use", "assistant", "assistant", extract_function, "none", NoId, FALSE)
ExtractResMsg == Msg("extract_res", "system", "system", "none", extract_function, NoId, FALSE)
ReportMsg == Msg("report", "assistant", "assistant", "none", "none", NoId, TRUE)

Top(stack) == stack[Len(stack)]
Pop(stack) == SubSeq(stack, 1, Len(stack) - 1)
SetTop(stack, f, v) == [stack EXCEPT ![Len(stack)] = [@ EXCEPT ![f] = v]]

\* The agent's mutable state threaded through the nested calls.
St(stack, idx, fs, mem) ==
    [stack |-> stack, idx |-> idx, files |-> fs, mem |-> mem]
Cur == St(current_subtask, report_index, files, memory)

\* ---------------------------------------------------------------- memory
RECURSIVE LastReport(_, _)
LastReport(mem, i) ==
    IF i = 0 THEN 0
    ELSE IF mem[i].report THEN i ELSE LastReport(mem, i - 1)

RECURSIVE StripToolUse(_)
StripToolUse(s) ==
    IF Len(s) > 0 /\ s[Len(s)].use # "none"
    THEN StripToolUse(SubSeq(s, 1, Len(s) - 1))
    ELSE s

_get_intermediate_memory(mem, remove_last_tool_use) ==
    LET im == SubSeq(mem, LastReport(mem, Len(mem)) + 1, Len(mem))
    IN  IF remove_last_tool_use THEN StripToolUse(im) ELSE im

RECURSIVE RemoveNum(_, _)
RemoveNum(mem, i) ==
    IF i = 0 THEN 0
    ELSE IF mem[i].report THEN 0
    ELSE IF mem[i].role = "user" THEN 0
    ELSE IF mem[i].use = summarize_function THEN 0
    ELSE 1 + RemoveNum(mem, i - 1)

\* a variant that also deletes the message the backward walk stopped at
replace_memory_through_stop(mem) ==
    LET keep == Len(mem) - RemoveNum(mem, Len(mem))
    IN  SubSeq(mem, 1, IF keep > 0 THEN keep - 1 ELSE 0)

_replace_intermediate_memory(mem) ==
    SubSeq(mem, 1, Len(mem) - RemoveNum(mem, Len(mem)))

\* The tool-use and tool-result messages of the span summarize_intermediate_results
\* read (mem since the last report boundary) that are still in memory after
\* the compaction (mem1); the summarize call in flight, when it is the last
\* message of mem, is not one of them.
Kept(mem, mem1) ==
    Cardinality({ i \in (LastReport(mem, Len(mem)) + 1)..Len(mem1) :
                    /\ mem1[i].kind \in {"reasoning", "tool_result",
                                         "extract_use", "extract_res"}
                    /\ ~(i = Len(mem) /\ mem[i].use = summarize_function) })

\* ------------------------------------------------- results of operations
\* text: which prompt_dict entry (or JSON dump) the ToolResponse carries;
\* raised: the call ended with an exception; returned: a ToolResponse was
\* returned; success: metadata["success"] ("unset" when absent); ord: the
\* ordinal of the intermediate report the call named; compacted: the memory
\* _replace_intermediate_memory was given (from) and left (to), whether the
\* summary revised the knowledge gaps, and the memory it left; reads: the ordinals
\* the final report read; did: the branch a reflection took; kept: how many
\* summarized messages the compaction left in memory; depth: the heading
\* depth (report_prefix) of the intermediate report; calls: the search calls
\* a follow-up judgment was given; again: one of them had been given to an
\* earlier judgment; request: the system prompt of the final report's model
\* call; response: the metadata of the response message.
Result(st, text, raised, returned, success) ==
    [st |-> st, text |-> text, raised |-> raised, returned |-> returned,
     success |-> success, ord |-> 0, reads |-> << >>, wrote_final |-> FALSE,
     did |-> "none", kept |-> 0, depth |-> 0, calls |-> << >>,
     again |-> FALSE, popped |-> << >>, compacted |-> << >>,
     request |-> << >>, response |-> << >>]
Ok(st, text) == Result(st, text, FALSE, TRUE, "unset")
Raise(st) == Result(st, "exception", TRUE, FALSE, "unset")

\* ------------------------------------------------ outcomes of the model
\* get_model_output(..., format_template=...) either raises, or returns the
\* dictionary get_structure_output builds ({} when no tool_use block came).
DecomposeOutcomes == {"raise", "empty", "full"}
TextOutcomes == {"raise", "ok"}

\* decompose_and_expand_subtask
decompose_and_expand_subtask(stack, out) ==
    IF Len(stack) <= max_depth
    THEN IF Len(stack) = 0
         THEN [stack |-> stack, text |-> "exception", raised |-> TRUE]
         ELSE LET gaps == IF out = "full" THEN "gaps" ELSE NULL
                  plan == IF out = "full" THEN "plan" ELSE NULL
                  response == IF out = "raise" THEN "retry_hint" ELSE "json"
              IN  [stack |-> SetTop(SetTop(stack, "knowledge_gaps", gaps),
                                    "working_plan", plan),
                   text |-> response, raised |-> FALSE]
    ELSE [stack |-> stack, text |-> "max_depth_hint", raised |-> FALSE]

\* summarize_intermediate_results
\* out.gaps_call / out.report_call: the two get_model_output calls;
\* out.write: whether the write_file tool call stored the file.
SummarizeOutcomes ==
    [gaps_call : TextOutcomes, report_call : TextOutcomes, write : BOOLEAN]

summarize_intermediate_results(s, out) ==
    LET im == _get_intermediate_memory(s.mem, FALSE)
    IN
    IF Len(im) = 0 THEN Ok(s, "no_result_hint")
    ELSE IF Len(s.stack) = 0 THEN Raise(s)
    ELSE
    LET by_name == im[Len(im)].name = summarize_function
        by_tool_use == im[Len(im)].use = summarize_function
        stack1 == IF by_name
                  THEN SetTop(s.stack, "knowledge_gaps", "updated_gaps")
                  ELSE s.stack
        mem1 == _replace_intermediate_memory(s.mem)
        fs1 == IF out.write THEN s.files \cup {s.idx} ELSE s.files
    IN
    IF by_name /\ out.gaps_call = "raise" THEN Raise(s)
    ELSE IF out.report_call = "raise" THEN Raise([s EXCEPT !.stack = stack1])
    ELSE IF by_tool_use
    THEN [Ok(St(stack1, s.idx + 1, fs1, mem1), "update_report_hint")
            EXCEPT !.ord = s.idx, !.kept = Kept(s.mem, mem1),
                   !.depth = Len(s.stack),
                   !.compacted = << [from |-> s.mem, to |-> mem1,
                                    revised |-> by_name, after |-> mem1] >>]
    ELSE [Ok(St(stack1, s.idx + 1, fs1, Append(mem1, ReportMsg)),
             "save_report_hint")
            EXCEPT !.ord = s.idx, !.kept = Kept(s.mem, mem1),
                   !.depth = Len(s.stack),
                   !.compacted = << [from |-> s.mem, to |-> mem1,
                                    revised |-> by_name,
                                    after |-> Append(mem1, ReportMsg)] >>]

\* the depth tests of the two pushes (each preceded by a variant that lets
\* one more record through)
follow_up_may_push_loose(stack) == Len(stack) <= max_depth
follow_up_may_push(stack) == Len(stack) < max_depth
reflect_may_push_loose(stack) == Len(stack) <= max_depth + 1
reflect_may_push(stack) == Len(stack) <= max_depth

\* _follow_up
\* extraction: outcome of the WebExtraction call ("yes": need_extraction);
\* judge: the FollowupJudge dictionary (raised: the call failed, giving {}).
ExtractionOutcomes == {"raise", "yes"}
JudgeOutcomes ==
    { j \in [raised : BOOLEAN, revision : {"", "revised_gaps"},
             explore : BOOLEAN, has_subtask : BOOLEAN] :
        /\ j.raised => (j.revision = "" /\ ~j.explore /\ ~j.has_subtask)
        /\ j.has_subtask => j.explore }

_follow_up(s, extraction, judge, sout) ==
    IF Len(s.stack) = 0 THEN Raise(s)
    ELSE
    LET mem1 == s.mem \o
                (IF extraction = "raise" THEN << >> ELSE << FollowUpMsg >>) \o
                (IF extraction = "yes"
                 THEN << ExtractUseMsg, ExtractResMsg >> ELSE << >>)
        mem2 == IF judge.raised THEN mem1 ELSE Append(mem1, FollowUpMsg)
        stack1 == IF judge.revision # ""
                  THEN SetTop(s.stack, "knowledge_gaps", judge.revision)
                  ELSE s.stack
        s2 == St(stack1, s.idx, s.files, mem2)
    IN
    IF judge.explore /\ follow_up_may_push(s.stack)
    THEN LET r == summarize_intermediate_results(s2, sout)
         IN  IF r.raised THEN Raise(r.st)
             ELSE IF ~judge.has_subtask THEN [Raise(r.st) EXCEPT !.ord = r.ord, !.kept = r.kept, !.depth = r.depth, !.compacted = r.compacted]
             ELSE [Ok([r.st EXCEPT !.stack =
                          Append(r.st.stack, SubTaskItem(SubObjective))],
                      "need_deeper_hint")
                     EXCEPT !.ord = r.ord, !.kept = r.kept, !.depth = r.depth, !.compacted = r.compacted]
    ELSE IF ~judge.explore THEN Ok(s2, "sufficient_hint")
    ELSE Ok(s2, "max_depth_hint")

\* reflect_failure
\* Each section of the ReflectFailure dictionary is absent ("missing"), says
\* no, says yes with its payload field, or says yes without it.
ReflectOutcomes ==
    { r \in [raised : BOOLEAN,
             rephrase : {"missing", "no", "yes", "yes_noplan"},
             decompose : {"missing", "no", "yes", "yes_noobj"}] :
        r.raised => (r.rephrase = "missing" /\ r.decompose = "missing") }

\* the if / elif chain of reflect_failure (preceded by the chain with the
\* two tests in the other order)
reflect_branch_decompose_first(refl) ==
    IF refl.decompose \in {"yes", "yes_noobj"} THEN "decompose"
    ELSE IF refl.rephrase \in {"yes", "yes_noplan"} THEN "rephrase"
    ELSE "none"

reflect_branch(refl) ==
    IF refl.rephrase \in {"yes", "yes_noplan"} THEN "rephrase"
    ELSE IF refl.decompose \in {"yes", "yes_noobj"} THEN "decompose"
    ELSE "none"

RECURSIVE FindToolUse(_, _, _)
FindToolUse(mem, name, i) ==
    IF i = 0 THEN 0
    ELSE IF mem[i].use = name THEN i ELSE FindToolUse(mem, name, i - 1)

reflect_failure(s, refl, sout) ==
    LET response == IF refl.raised THEN "retry_hint" ELSE "json"
    IN
    IF Len(s.stack) = 0 THEN Raise(s)
    ELSE IF reflect_branch(refl) = "rephrase"
    THEN IF refl.rephrase # "yes" THEN Raise(s)
         ELSE [Ok([s EXCEPT !.stack =
                      SetTop(s.stack, "working_plan", "rephrased_plan")],
                  response)
                 EXCEPT !.did = "rephrase"]
    ELSE IF reflect_branch(refl) = "decompose"
    THEN IF reflect_may_push(s.stack)
         THEN LET k == FindToolUse(s.mem, reflect_function, Len(s.mem))
                  r == summarize_intermediate_results(s, sout)
                  mem1 == IF k = 0 THEN r.st.mem
                          ELSE Append(r.st.mem, s.mem[k])
              IN  IF r.raised THEN Raise(r.st)
                  ELSE IF refl.decompose # "yes"
                  THEN [Raise([r.st EXCEPT !.mem = mem1]) EXCEPT !.ord = r.ord, !.kept = r.kept, !.depth = r.depth, !.compacted = r.compacted]
                  ELSE [Ok([r.st EXCEPT
                              !.mem = mem1,
                              !.stack = Append(r.st.stack,
                                               SubTaskItem(SubObjective))],
                           response)
                          EXCEPT !.ord = r.ord, !.kept = r.kept, !.depth = r.depth, !.compacted = r.compacted, !.did = "push"]
         ELSE Ok(s, "max_depth_hint")
    ELSE Ok(s, response)

\* finish_current_subtask
\* a variant that takes the record off the wrong end of the stack
finish_current_subtask_drop_first(s) ==
    IF Len(s.stack) > 1
    THEN [Result([s EXCEPT !.stack = Tail(s.stack)],
                 "subtask_complete_hint", FALSE, TRUE, "false")
            EXCEPT !.popped = << Head(s.stack) >>]
    ELSE Result(s, "none", FALSE, FALSE, "unset")

finish_current_subtask(s) ==
    IF Len(s.stack) > 1
    THEN [Result([s EXCEPT !.stack = Pop(s.stack)],
                 "subtask_complete_hint", FALSE, TRUE, "false")
            EXCEPT !.popped = << Top(s.stack) >>]
    ELSE Result(s, "none", FALSE, FALSE, "unset")

\* _generate_deepresearch_report
\* missing: what reading a report file that does not exist does (the
\* read_file tool answers with an error text, or the indexing of its output
\* raises); call: the model call; write: whether write_file stored the file.
ReportOutcomes ==
    [missing : {"error_text", "raise"}, call : TextOutcomes, write : BOOLEAN]

FirstMissing(s) ==
    CHOOSE i \in 1..s.idx : i \notin s.files /\ \A j \in 1..(i - 1) : j \in s.files

\* prompt_dict["reporting_sys_prompt"]: a template with two fields, each
\* << >> until a value is put in its place
reporting_sys_prompt == [original_task |-> << >>, checklist |-> << >>]

\* str.format_map: a new string with the fields filled in; the template it
\* is called on stays as it was
format_map(template, values) ==
    [f \in DOMAIN template |-> << values[f] >>]

\* self.user_query, set by the pre-reply hook from the user's message
user_query == IF replies = 0 THEN NULL ELSE Query(replies)

detailed_report_path == "detailed_report.md"

_generate_deepresearch_report(s, checklist, out) ==
    LET formatted == format_map(reporting_sys_prompt,
                                [original_task |-> user_query,
                                 checklist |-> checklist])
        from_files == s.idx > 1
        upto == IF ~from_files THEN 0
                ELSE IF out.missing = "raise" THEN FirstMissing(s) ELSE s.idx
        reads == [i \in 1..upto |-> i]
        asked == ~(from_files /\ out.missing = "raise")
        raised == ~asked \/ out.call = "raise"
    IN  [reads |-> reads, raised |-> raised,
         request |-> IF asked THEN << [system |-> reporting_sys_prompt] >>
                     ELSE << >>,
         wrote_final |-> ~raised /\ out.write,
         path |-> detailed_report_path]

\* WorkerResponse(...).model_dump(): the metadata of a response message
WorkerResponse(task_done, generated_files) ==
    [task_done |-> task_done, generated_files |-> generated_files]

\* a str and a dict, as values of generated_files
PathString(path) == [type |-> "str", path |-> path]
FileMapping(path, description) ==
    [type |-> "dict", path |-> path, description |-> description]

\* generate_response
generate_response(s, out) ==
    IF Len(s.stack) = 0 THEN Raise(s)
    ELSE
    LET checklist == s.stack[1].knowledge_gaps
        s1 == [s EXCEPT !.stack = Pop(s.stack)]
        g == _generate_deepresearch_report(s1, checklist, out)
    IN  IF Len(s1.stack) = 0
        THEN IF g.raised
             THEN [Raise(s1) EXCEPT !.reads = g.reads, !.request = g.request]
             ELSE [Result(s1, "success", FALSE, TRUE, "true")
                     EXCEPT !.reads = g.reads, !.wrote_final = g.wrote_final,
                            !.request = g.request,
                            !.response =
                                << WorkerResponse(TRUE,
                                       FileMapping(g.path,
                                                   "final_report")) >>]
        ELSE [Result(s1, "subtask_complete_hint", FALSE, TRUE, "false")
                EXCEPT !.popped = << Top(s.stack) >>]

\* hooks that are pure functions of what they touch
\* a variant that deletes the last message instead of the one before it
post_reasoning_hook_drop_last(mem) ==
    IF Len(mem) > 1 THEN SubSeq(mem, 1, Len(mem) - 1) ELSE mem

deep_research_post_reasoning_hook(mem) ==
    IF Len(mem) > 1
    THEN SubSeq(mem, 1, Len(mem) - 2) \o << mem[Len(mem)] >>
    ELSE mem

deep_research_post_action_hook(buffer, name, id) ==
    IF name = search_function THEN Append(buffer, id) ELSE buffer

\* ----------------------------------------------------------- the machine
NoInput == [none |-> TRUE]
DefaultSummarize == [gaps_call |-> "ok", report_call |-> "ok", write |-> TRUE]
DefaultJudge ==
    [raised |-> TRUE, revision |-> "", explore |-> FALSE, has_subtask |-> FALSE]
DefaultReport == [missing |-> "error_text", call |-> "ok", write |-> TRUE]

\* mid: the stack a hook handed to decompose_and_expand_subtask (the stack
\* the operation left, when it decomposes nothing).
\* pushed_on: the stack a record was appended to, for as long as nothing has
\* changed the stack since; was_on: its value when the operation began.
IsPush(pre, post) ==
    /\ Len(post) = Len(pre) + 1
    /\ SubSeq(post, 1, Len(pre)) = pre

PushedOn(pre, mid, post, on) ==
    IF post = pre THEN on
    ELSE IF IsPush(pre, mid) /\ post = mid THEN << pre >>
    ELSE << >>

Recorded(op, input, r, on) ==
    [op |-> op, input |-> input, pre |-> current_subtask,
     mid |-> r.st.stack, post |-> r.st.stack, text |-> r.text, decomposed |-> "none",
     raised |-> r.raised, returned |-> r.returned, success |-> r.success,
     ord |-> r.ord, kept |-> r.kept, depth |-> r.depth,
     calls |-> r.calls, again |-> r.again,
     reads |-> r.reads, wrote_final |-> r.wrote_final,
     did |-> r.did, popped |-> r.popped, compacted |-> r.compacted,
     request |-> r.request, response |-> r.response,
     was_on |-> on,
     pushed_on |-> PushedOn(current_subtask, r.st.stack, r.st.stack, on)]

Called(op, input, r) == Recorded(op, input, r, last.pushed_on)

Tools == {search_function, summarize_function, reflect_function,
          finish_subtask_function, finish_function_name}

CallId == << replies, iters >>

\* ------------------------------------------- the browser agent: data model
browser_snapshot == "browser_snapshot"
browser_navigate == "browser_navigate"
browser_subtask_manager == "browser_subtask_manager"
browser_generate_final_response == "browser_generate_final_response"

BrowserTools == {browser_snapshot, browser_navigate, browser_subtask_manager,
                 browser_generate_final_response}

\* the tool_use blocks one model answer can carry, by tool name
ToolUseBlocks == UNION { [1..n -> BrowserTools] : n \in 0..MaxToolCalls }

\* A message of the browser agent's memory. id is << reply, iteration, step,
\* position >>: position 0 is the message of the step itself, position i
\* the i-th tool_use block of it.
BrowserMsg(kind, role, uses, id) ==
    [kind |-> kind, role |-> role, uses |-> uses, id |-> id]

TaskMsg(reply) == BrowserMsg("task", "user", << >>, << reply, 0, "task", 0 >>)
BrowserReasoningMsg(uses, id) == BrowserMsg("reasoning", "assistant", uses, id)
ToolResMsg(id) == BrowserMsg("tool_result", "system", << >>, id)
InterruptedResMsg(id) == BrowserMsg("interrupted_result", "system", << >>, id)
SummaryMsg(id) == BrowserMsg("summary", "assistant", << >>, id)
ResponseMsg(id) == BrowserMsg("response", "assistant", << >>, id)

\* memory.delete(mem_len - 1)
DeleteLast(mem) == SubSeq(mem, 1, Len(mem) - 1)

BrowserRecord(op, blocks, cancelled, raised, pre) ==
    [op |-> op, blocks |-> blocks, cancelled |-> cancelled, raised |-> raised,
     pre |-> pre, id |-> << 0, 0, "none", 0 >>, returned |-> << >>,
     out |-> "none"]

BrowserStart ==
    /\ b_memory = << >>
    /\ b_pc = "idle"
    /\ b_replies = 0
    /\ b_iter = 0
    /\ b_steps = 0
    /\ b_calls = << >>
    /\ b_responses = << >>
    /\ b_subtasks = 0
    /\ b_subtask_idx = 0
    /\ b_current = "none"
    /\ b_last = BrowserRecord("init", << >>, FALSE, FALSE, << >>)

\* ------------------------------------------- the meta planner: data model
PlannerMsg(kind, step) == [kind |-> kind, step |-> step]

\* the tools a worker can be given, and what a create_worker call can ask for
FullToolset == {"t1", "t2"}
WorkerNames == {"A", "B"}
WorkerDescriptions == {"d1", "d2"}
WorkerToolsets == {{"t1"}, {"t1", "t2"}, {"t9"}}

WorkerRecord(description, tools) ==
    [description |-> description, worker_type |-> "dynamic", toolset |-> tools]

NoCall == [tool |-> "none", name |-> "", description |-> "", tools |-> {}]

PlannerCalls ==
    { [NoCall EXCEPT !.tool = t] :
          t \in {"show_current_worker_pool", "generate_response",
                 "enter_planning_execution_mode", "enter_easy_task_mode"} }
    \cup { [NoCall EXCEPT !.tool = "execute_worker", !.name = n] :
               n \in WorkerNames }
    \cup { [tool |-> "create_worker", name |-> n, description |-> d,
             tools |-> ts] :
               n \in WorkerNames, d \in WorkerDescriptions,
               ts \in WorkerToolsets }

PlannerRecord(op, call, raised, pre_pool) ==
    [op |-> op, call |-> call, raised |-> raised, pre_pool |-> pre_pool,
     step |-> 0, ran |-> << >>, called |-> << >>]

Max(a, b) == IF a >= b THEN a ELSE b

\* self.max_iters after __init__: the argument, raised to PLANNER_MAX_ITER
self_max_iters(max_iters, PLANNER_MAX_ITER) ==
    Max(max_iters, PLANNER_MAX_ITER)

\* the tools registered in the "planning" group
PlanningTools == {"show_current_worker_pool", "create_worker",
                  "execute_worker"}

\* toolkit.update_tool_groups(["planning"], active)
update_tool_groups(a, active) == [a EXCEPT !.planning = active]

\* _update_toolkit_and_sys_prompt
_update_toolkit_and_sys_prompt(a) ==
    [update_tool_groups([a EXCEPT !.sys_prompt = "meta_planner_sys_prompt"],
                        TRUE)
        EXCEPT !.work_pattern = "planner"]

\* prepare_planner_tools, on the agent's mode: the planning group is made
\* anew, then left inactive (dynamic) or activated (enforced)
prepare_planner_tools_mode(a, planner_mode) ==
    IF planner_mode = "dynamic" THEN update_tool_groups(a, FALSE)
    ELSE IF planner_mode = "enforced"
    THEN _update_toolkit_and_sys_prompt(update_tool_groups(a, TRUE))
    ELSE a

\* resume_planner_tools, on the agent's mode
resume_planner_tools_mode(a) ==
    LET b == prepare_planner_tools_mode(a, a.planner_mode)
    IN  IF b.work_pattern = "planner"
        THEN _update_toolkit_and_sys_prompt(b)
        ELSE b

\* enter_planning_execution_mode: _ensure_file_system_functions raises when
\* the worker toolkit lacks a file system tool
enter_planning_execution_mode(a) ==
    IF ~a.file_tools THEN a
    ELSE _update_toolkit_and_sys_prompt(a)

\* enter_easy_task_mode
enter_easy_task_mode(a) ==
    IF ~a.file_tools THEN a
    ELSE [a EXCEPT !.sys_prompt = "base_sys_prompt",
                   !.work_pattern = "worker"]

\* the tools whose schemas the toolkit offers to the model: the two mode
\* switches are registered in dynamic mode only, a planning tool is offered
\* while its group is active
Callable(a, tool) ==
    IF tool \in {"enter_planning_execution_mode", "enter_easy_task_mode"}
    THEN a.planner_mode = "dynamic"
    ELSE tool \in PlanningTools => a.planning

\* the agent's mode after __init__
PlannerModeInit(planner_mode, file_tools) ==
    prepare_planner_tools_mode(
        [planner_mode |-> planner_mode, work_pattern |-> "simplest",
         sys_prompt |-> "base_sys_prompt", planning |-> FALSE,
         file_tools |-> file_tools],
        planner_mode)

\* MetaPlanner(max_iters = ...), with PLANNER_MAX_ITER as constants.py read it
\* from the environment
MetaPlannerInit(max_iters, PLANNER_MAX_ITER) ==
    /\ p_memory = << >>
    /\ p_saved = << >>
    /\ p_pool = << >>
    /\ p_pc = "idle"
    /\ p_replies = 0
    /\ p_steps = 0
    /\ p_call = NoCall
    /\ p_init_max_iters = max_iters
    /\ p_max_iters = self_max_iters(max_iters, PLANNER_MAX_ITER)
    /\ p_iters = 0
    /\ p_last = PlannerRecord("init", NoCall, FALSE, << >>)

PlannerModes == {"dynamic", "enforced"}

PlannerStart ==
    /\ MetaPlannerInit(1, 1)
    /\ p_agent = PlannerModeInit("dynamic", TRUE)

DeepResearchStart ==
    /\ current_subtask = << >>
    /\ report_index = 1
    /\ files = {}
    /\ detailed_writes = 0
    /\ memory = << >>
    /\ search_call_buffer = << >>
    /\ pc = "idle"
    /\ iters = 0
    /\ tool_call = "none"
    /\ replies = 0
    /\ steps = 0
    /\ judged_calls = {}
    /\ last = Recorded("init", NoInput, Ok(Cur, "none"), << >>)

Init ==
    /\ max_depth \in 1..MaxMaxDepth
    /\ DeepResearchStart
    /\ b_parallel = FALSE
    /\ BrowserStart
    /\ PlannerStart

\* deep_research_pre_reply_hook, run when the agent is called with a message
PreReplyHook(dout) ==
    /\ pc = "idle"
    /\ replies < MaxReplies
    /\ LET pushed == Append(current_subtask, SubTaskItem(Query(replies + 1)))
           d == decompose_and_expand_subtask(pushed, dout)
       IN  /\ current_subtask' = d.stack
           /\ last' = [Called("pre_reply",
                              [decompose |-> IF d.text = "max_depth_hint"
                                             THEN "unused" ELSE dout],
                              Ok([Cur EXCEPT !.stack = d.stack], "none"))
                         EXCEPT !.decomposed = d.text, !.pushed_on = << >>,
                                !.mid = pushed]
    /\ replies' = replies + 1
    /\ iters' = 0
    /\ pc' = "reply"
    /\ UNCHANGED << browser_vars, planner_vars, max_depth, judged_calls, report_index, files, detailed_writes, memory,
                    search_call_buffer, tool_call, steps >>

\* the reply body starts by recording the user message
ReplyBegin ==
    /\ pc = "reply"
    /\ memory' = Append(memory, QueryMsg)
    /\ pc' = "pre_reasoning"
    /\ last' = Called("reply", NoInput, Ok([Cur EXCEPT !.mem = memory'], "none"))
    /\ UNCHANGED << browser_vars, planner_vars, max_depth, judged_calls, current_subtask, report_index, files,
                    detailed_writes, search_call_buffer, iters, tool_call,
                    replies, steps >>

\* deep_research_pre_reasoning_hook
PreReasoningHook(extraction, judge, sout, dout) ==
    /\ pc = "pre_reasoning"
    /\ iters < MaxIters
    /\ LET judged == Len(search_call_buffer) > 0
           f == IF judged THEN _follow_up(Cur, extraction, judge, sout)
                ELSE Ok(Cur, "none")
           empty == Len(f.st.stack) = 0
           plans == ~f.raised /\ ~empty /\ Top(f.st.stack).working_plan = NULL
           d == IF plans THEN decompose_and_expand_subtask(f.st.stack, dout)
                ELSE [stack |-> f.st.stack, text |-> "none", raised |-> FALSE]
           failed == f.raised \/ empty
           made == judged /\ Len(current_subtask) > 0
           calls == IF made THEN search_call_buffer ELSE << >>
           input == [judged |-> judged, extraction |-> extraction,
                     judge |-> judge,
                     decompose |-> IF d.text \in {"none", "max_depth_hint"}
                                   THEN "unused" ELSE dout]
       IN  /\ current_subtask' = d.stack
           /\ report_index' = f.st.idx
           /\ files' = f.st.files
           /\ memory' = IF failed THEN f.st.mem ELSE Append(f.st.mem, PromptMsg)
           /\ search_call_buffer' =
                  IF f.raised THEN search_call_buffer ELSE << >>
           /\ pc' = IF failed THEN "idle" ELSE "reasoning"
           /\ last' = [Called("pre_reasoning", input,
                              IF failed THEN Raise(f.st) ELSE f)
                         EXCEPT !.ord = f.ord, !.kept = f.kept,
                                !.compacted = f.compacted,
                                !.depth = f.depth, !.decomposed = d.text,
                                !.mid = f.st.stack,
                                !.calls = calls,
                                !.again = \E i \in DOMAIN calls :
                                              calls[i] \in judged_calls,
                                !.pushed_on =
                                    PushedOn(current_subtask, f.st.stack,
                                             d.stack, last.pushed_on)]
           /\ judged_calls' =
                  judged_calls \cup { calls[i] : i \in DOMAIN calls }
    /\ UNCHANGED << browser_vars, planner_vars, max_depth, detailed_writes, iters, tool_call, replies,
                    steps >>

\* one reasoning step of the loop: the model answers with one tool call
Reasoning(t) ==
    /\ pc = "reasoning"
    /\ steps < MaxSteps
    /\ steps' = steps + 1
    /\ iters' = iters + 1
    /\ memory' = Append(memory, ReasoningMsg(t))
    /\ tool_call' = t
    /\ pc' = "post_reasoning"
    /\ last' = Called("reasoning", [tool |-> t],
                      Ok([Cur EXCEPT !.mem = memory'], "none"))
    /\ UNCHANGED << browser_vars, planner_vars, max_depth, judged_calls, current_subtask, report_index, files,
                    detailed_writes, search_call_buffer, replies >>

\* deep_research_post_reasoning_hook
PostReasoningHook ==
    /\ pc = "post_reasoning"
    /\ memory' = deep_research_post_reasoning_hook(memory)
    /\ pc' = "acting"
    /\ last' = Called("post_reasoning", NoInput,
                      Ok([Cur EXCEPT !.mem = memory'], "none"))
    /\ UNCHANGED << browser_vars, planner_vars, max_depth, judged_calls, current_subtask, report_index, files,
                    detailed_writes, search_call_buffer, iters, tool_call,
                    replies, steps >>

\* the reasoning call is cancelled or fails: the reply ends without its
\* post-reply hook
Cancel ==
    /\ pc = "reasoning"
    /\ pc' = "idle"
    /\ last' = Called("cancel", NoInput, Raise(Cur))
    /\ UNCHANGED << browser_vars, planner_vars, max_depth, judged_calls, current_subtask, report_index, files,
                    detailed_writes, memory, search_call_buffer, iters,
                    tool_call, replies, steps >>

\* acting: the tool function runs, its result message is recorded, the
\* post-acting hook runs; a finish function that reports success ends the
\* reply, a tool function that returns no ToolResponse breaks it.
Acted(op, input, r) ==
    /\ current_subtask' = r.st.stack
    /\ report_index' = r.st.idx
    /\ files' = r.st.files
    /\ memory' = Append(r.st.mem, ToolResultMsg(tool_call, CallId))
    /\ search_call_buffer' =
           deep_research_post_action_hook(search_call_buffer, tool_call, CallId)
    /\ detailed_writes' = detailed_writes + (IF r.wrote_final THEN 1 ELSE 0)
    /\ pc' = IF ~r.raised /\ ~r.returned THEN "idle"
             ELSE IF tool_call = finish_function_name /\ r.success = "true"
             THEN "post_reply"
             ELSE "pre_reasoning"
    /\ last' = Called(op, input, r)
    /\ UNCHANGED << browser_vars, planner_vars, max_depth, judged_calls, iters, tool_call, replies, steps >>

ActSearch ==
    /\ pc = "acting"
    /\ tool_call = search_function
    /\ Acted("search", NoInput, Ok(Cur, "search_results"))

ActSummarize(sout) ==
    /\ pc = "acting"
    /\ tool_call = summarize_function
    /\ Acted("summarize", NoInput, summarize_intermediate_results(Cur, sout))

ActReflect(refl, sout) ==
    /\ pc = "acting"
    /\ tool_call = reflect_function
    /\ Acted("reflect_failure", refl, reflect_failure(Cur, refl, sout))

ActFinishSubtask ==
    /\ pc = "acting"
    /\ tool_call = finish_subtask_function
    /\ Acted("finish_current_subtask", NoInput, finish_current_subtask(Cur))

ActGenerateResponse(rout) ==
    /\ pc = "acting"
    /\ tool_call = finish_function_name
    /\ Acted("generate_response", NoInput, generate_response(Cur, rout))

\* _summarizing, when the iteration budget is used up
Summarizing(rout) ==
    /\ pc = "pre_reasoning"
    /\ iters = MaxIters
    /\ LET empty == Len(current_subtask) = 0
           g == _generate_deepresearch_report(
                    Cur,
                    IF empty THEN NULL ELSE current_subtask[1].knowledge_gaps,
                    rout)
           failed == empty \/ g.raised
       IN  /\ pc' = IF failed THEN "idle" ELSE "post_reply"
           /\ detailed_writes' =
                  detailed_writes + (IF ~failed /\ g.wrote_final THEN 1 ELSE 0)
           /\ last' = [Called("_summarizing", NoInput,
                              IF failed THEN Raise(Cur)
                              ELSE Result(Cur, "summary", FALSE, TRUE, "unset"))
                         EXCEPT !.reads = IF empty THEN << >> ELSE g.reads,
                                !.request = IF empty THEN << >>
                                            ELSE g.request,
                                !.response =
                                    IF failed THEN << >>
                                    ELSE << WorkerResponse(FALSE,
                                                PathString(g.path)) >>,
                                !.wrote_final = ~failed /\ g.wrote_final]
    /\ UNCHANGED << browser_vars, planner_vars, max_depth, judged_calls, current_subtask, report_index, files, memory,
                    search_call_buffer, iters, tool_call, replies, steps >>

\* deep_research_post_reply_hook
PostReplyHook ==
    /\ pc = "post_reply"
    /\ current_subtask' = << >>
    /\ pc' = "idle"
    /\ last' = Called("post_reply", NoInput,
                      Ok([Cur EXCEPT !.stack = << >>], "none"))
    /\ UNCHANGED << browser_vars, planner_vars, max_depth, judged_calls, report_index, files, detailed_writes, memory,
                    search_call_buffer, iters, tool_call, replies, steps >>

\* the attributes of the agent, and the ones state_dict() covers: the
\* constructor registers none, the memory is covered as a state module
DeepResearchAgent ==
    [current_subtask |-> current_subtask, report_index |-> report_index,
     search_call_buffer |-> search_call_buffer, memory |-> memory]

NewDeepResearchAgent ==
    [current_subtask |-> << >>, report_index |-> 1,
     search_call_buffer |-> << >>, memory |-> << >>]

RegisteredState == {"memory"}

\* state_dict() and load_state_dict(): the covered attributes, by name
state_dict(agent) == [a \in RegisteredState |-> agent[a]]

load_state_dict(agent, state) ==
    [a \in DOMAIN agent |-> IF a \in DOMAIN state THEN state[a] ELSE agent[a]]

\* between two replies the agent's state is saved to the session store and
\* a new instance of the agent is constructed and loads it; the new
\* instance has a report_path_based of its own, so no report file of the
\* old one is its own
SaveAndLoadState ==
    /\ pc = "idle"
    /\ LET state == state_dict(DeepResearchAgent)
           agent == load_state_dict(NewDeepResearchAgent, state)
       IN  /\ current_subtask' = agent.current_subtask
           /\ report_index' = agent.report_index
           /\ search_call_buffer' = agent.search_call_buffer
           /\ memory' = agent.memory
           /\ last' = Called("load_state", NoInput,
                             Ok(St(agent.current_subtask, agent.report_index,
                                   {}, agent.memory), "none"))
    /\ files' = {}
    /\ iters' = 0
    /\ UNCHANGED << browser_vars, planner_vars, max_depth, judged_calls,
                    detailed_writes, pc, tool_call, replies, steps >>

UsesSummary(refl) ==
    /\ reflect_branch(refl) = "decompose"
    /\ reflect_may_push(current_subtask)

Next ==
    \/ \E dout \in DecomposeOutcomes : PreReplyHook(dout)
    \/ ReplyBegin
    \/ \E extraction \in (IF Len(search_call_buffer) > 0
                          THEN ExtractionOutcomes ELSE {"raise"}),
          judge \in (IF Len(search_call_buffer) > 0
                     THEN JudgeOutcomes ELSE {DefaultJudge}),
          dout \in DecomposeOutcomes :
          \E sout \in (IF judge.explore /\ follow_up_may_push(current_subtask)
                       THEN SummarizeOutcomes ELSE {DefaultSummarize}) :
              PreReasoningHook(extraction, judge, sout, dout)
    \/ \E t \in Tools : Reasoning(t)
    \/ PostReasoningHook
    \/ Cancel
    \/ ActSearch
    \/ \E sout \in SummarizeOutcomes : ActSummarize(sout)
    \/ \E refl \in ReflectOutcomes :
          \E sout \in (IF UsesSummary(refl)
                       THEN SummarizeOutcomes ELSE {DefaultSummarize}) :
              ActReflect(refl, sout)
    \/ ActFinishSubtask
    \/ \E rout \in ReportOutcomes : ActGenerateResponse(rout)
    \/ \E rout \in ReportOutcomes : Summarizing(rout)
    \/ SaveAndLoadState
    \/ PostReplyHook

Spec == Init /\ [][Next]_vars

\* ------------------------------------------ the browser agent: operations
Id(it, step, i) == << b_replies, it, step, i >>

\* a variant of _memory_summarizing that keeps the summary alone
memory_summarizing_summary_only(mem, id) == << SummaryMsg(id) >>

\* _memory_summarizing: the first message of role user, when there is one,
\* then one summary message
_memory_summarizing(mem, id) ==
    LET users == { i \in DOMAIN mem : mem[i].role = "user" }
        first == CHOOSE i \in users : \A j \in users : i <= j
    IN  (IF users # {}
         THEN << BrowserMsg("task", "user", << >>, mem[first].id) >>
         ELSE << >>) \o << SummaryMsg(id) >>

\* _summarize_mem
_summarize_mem(mem, id) ==
    IF Len(mem) > MaxMemLength THEN _memory_summarizing(mem, id) ELSE mem

\* the synthetic results written for the tool_use blocks of an interrupted
\* reasoning message
InterruptedResults(blocks, it, step) ==
    [i \in 1..Len(blocks) |-> InterruptedResMsg(Id(it, step, i))]

\* _pure_reasoning: blocks are the tool_use blocks of the (partial) message;
\* cancelled: asyncio.CancelledError arrives while the output is received.
\* The finally clause records the message and, when interrupted, the
\* synthetic results.
_pure_reasoning(mem, blocks, cancelled, it) ==
    Append(mem, BrowserReasoningMsg(blocks, Id(it, "pure", 0)))
        \o (IF cancelled THEN InterruptedResults(blocks, it, "pure")
            ELSE << >>)

\* _reasoning_with_observation: the last message is deleted first; the
\* except clause re-raises and there is no finally clause, so the code that
\* records the message and the synthetic results is not reached on
\* cancellation. The snapshot chunks are abstracted to the call whose
\* message is kept.
_reasoning_with_observation(mem, blocks, cancelled, it) ==
    LET m1 == DeleteLast(mem)
    IN  IF cancelled THEN m1
        ELSE Append(m1, BrowserReasoningMsg(blocks, Id(it, "observe", 0)))

\* what a tool call can do. success / failure: browser_generate_final_response
\* with metadata success True / False; completed / kept / revised: the
\* verdicts of browser_subtask_manager (revised to n subtasks); done: any
\* other tool; interrupted: the tool yields a chunk with is_interrupted.
ActingOutcomes(name) ==
    IF name = browser_generate_final_response
    THEN { [kind |-> k, n |-> 0] : k \in {"success", "failure"} }
    ELSE IF name = browser_subtask_manager
    THEN { [kind |-> k, n |-> 0] : k \in {"completed", "kept", "interrupted"} }
         \cup { [kind |-> "revised", n |-> m] : m \in 1..MaxSubtasks }
    ELSE { [kind |-> k, n |-> 0] : k \in {"done", "interrupted"} }

\* browser_subtask_manager
browser_subtask_manager_call(t, out) ==
    IF t.subtasks = 0 \/ t.current = "none"
    THEN [t EXCEPT !.current = "task"]
    ELSE IF out.kind = "completed"
    THEN [t EXCEPT !.idx = t.idx + 1,
                   !.current = IF t.idx + 1 < t.subtasks
                               THEN "subtask" ELSE "none"]
    ELSE IF out.kind = "revised"
    THEN [subtasks |-> out.n, idx |-> 0, current |-> "subtask"]
    ELSE t

\* _acting: the value returned and, in the finally clause, the memory update
ActingResponse(name, out) ==
    IF name = browser_generate_final_response /\ out.kind = "success"
    THEN "response"
    ELSE IF out.kind = "interrupted" THEN "interrupted"
    ELSE "none"

_acting(mem, call, out) ==
    IF call.name = browser_subtask_manager
    THEN IF Len(mem) >= 1 THEN DeleteLast(mem) ELSE mem
    ELSE Append(mem, IF out.kind = "interrupted"
                     THEN InterruptedResMsg(call.id) ELSE ToolResMsg(call.id))

\* the message _acting returned for a tool call
ActingMsg(call, response) ==
    IF response = "response" THEN ResponseMsg(call.id)
    ELSE InterruptedResMsg(call.id)

\* for acting_msg in acting_responses: reply_msg = reply_msg or acting_msg
FirstResponse(calls, responses) ==
    LET some == { i \in DOMAIN responses : responses[i] # "none" }
        first == CHOOSE i \in some : \A j \in some : i <= j
    IN  IF some = {} THEN << >>
        ELSE << ActingMsg(calls[first], responses[first]) >>

Calls(blocks, it, step) ==
    [i \in 1..Len(blocks) |-> [name |-> blocks[i], id |-> Id(it, step, i)]]

Pending(calls) == [i \in DOMAIN calls |-> "pending"]

\* --------------------------------------------- the browser agent: machine
\* reply up to the loop: _task_decomposition_and_reformat yields n subtasks,
\* the formatted task is added to memory
BrowserReply(n) ==
    /\ b_pc = "idle"
    /\ b_replies < MaxBrowserReplies
    /\ b_replies' = b_replies + 1
    /\ b_subtasks' = n
    /\ b_subtask_idx' = 0
    /\ b_current' = IF n > 0 THEN "subtask" ELSE "none"
    /\ b_memory' = Append(b_memory, TaskMsg(b_replies + 1))
    /\ b_iter' = 0
    /\ b_calls' = << >>
    /\ b_responses' = << >>
    /\ b_pc' = "loop"
    /\ b_last' = BrowserRecord("reply", << >>, FALSE, FALSE, b_memory)
    /\ UNCHANGED << dr_vars, planner_vars, b_parallel, b_steps >>

\* the head of one iteration: _summarize_mem, then _pure_reasoning
PureReasoning(blocks, cancelled) ==
    /\ b_pc = "loop"
    /\ b_iter < MaxBrowserIters
    /\ b_steps < MaxBrowserSteps
    /\ b_steps' = b_steps + 1
    /\ LET it == b_iter + 1
           m0 == _summarize_mem(b_memory, Id(it, "summary", 0))
           observes == Len(blocks) > 0 /\ blocks[1] = browser_snapshot
           acts == ~cancelled /\ ~observes
       IN  /\ b_iter' = it
           /\ b_memory' = _pure_reasoning(m0, blocks, cancelled, it)
           /\ b_pc' = IF cancelled THEN "idle"
                      ELSE IF observes THEN "observe" ELSE "acting"
           /\ b_calls' = IF acts THEN Calls(blocks, it, "pure") ELSE << >>
           /\ b_responses' = Pending(b_calls')
           /\ b_last' = [BrowserRecord("_pure_reasoning", blocks, cancelled,
                                       cancelled, m0)
                           EXCEPT !.id = Id(it, "pure", 0)]
    /\ UNCHANGED << dr_vars, planner_vars, b_parallel, b_replies, b_subtasks,
                    b_subtask_idx, b_current >>

\* _reasoning_with_observation, when the first tool call is browser_snapshot
ReasoningWithObservation(blocks, cancelled) ==
    /\ b_pc = "observe"
    /\ b_memory' =
           _reasoning_with_observation(b_memory, blocks, cancelled, b_iter)
    /\ b_pc' = IF cancelled THEN "idle" ELSE "acting"
    /\ b_calls' = IF cancelled THEN << >>
                  ELSE Calls(blocks, b_iter, "observe")
    /\ b_responses' = Pending(b_calls')
    /\ b_last' = [BrowserRecord("_reasoning_with_observation", blocks,
                                cancelled, cancelled, b_memory)
                    EXCEPT !.id = Id(b_iter, "observe", 0)]
    /\ UNCHANGED << dr_vars, planner_vars, b_parallel, b_replies, b_steps, b_iter, b_subtasks,
                    b_subtask_idx, b_current >>

\* one _acting coroutine runs to its end. Sequential: in tool-call order;
\* under asyncio.gather: in any order of completion.
Acting(i, out) ==
    /\ b_pc = "acting"
    /\ i \in DOMAIN b_calls
    /\ b_responses[i] = "pending"
    /\ b_parallel \/ \A j \in 1..(i - 1) : b_responses[j] # "pending"
    /\ LET call == b_calls[i]
           t == [subtasks |-> b_subtasks, idx |-> b_subtask_idx,
                 current |-> b_current]
           t1 == IF call.name = browser_subtask_manager
                 THEN browser_subtask_manager_call(t, out) ELSE t
       IN  /\ b_memory' = _acting(b_memory, call, out)
           /\ b_responses' =
                  [b_responses EXCEPT ![i] = ActingResponse(call.name, out)]
           /\ b_subtasks' = t1.subtasks
           /\ b_subtask_idx' = t1.idx
           /\ b_current' = t1.current
           /\ b_last' = [BrowserRecord("_acting", << call.name >>, FALSE,
                                       FALSE, b_memory)
                           EXCEPT !.id = call.id, !.out = out.kind]
    /\ UNCHANGED << dr_vars, planner_vars, b_parallel, b_pc, b_replies, b_steps, b_iter, b_calls >>

\* the end of one iteration: the first non-None response ends the reply
Join ==
    /\ b_pc = "acting"
    /\ \A i \in DOMAIN b_responses : b_responses[i] # "pending"
    /\ LET reply_msg == FirstResponse(b_calls, b_responses)
       IN  /\ b_memory' = b_memory \o reply_msg
           /\ b_pc' = IF reply_msg # << >> THEN "idle" ELSE "loop"
           /\ b_last' = [BrowserRecord("join", << >>, FALSE, FALSE, b_memory)
                           EXCEPT !.returned = reply_msg]
    /\ UNCHANGED << dr_vars, planner_vars, b_parallel, b_replies, b_steps, b_iter, b_calls,
                    b_responses, b_subtasks, b_subtask_idx, b_current >>

\* max_iters iterations gave no response: the message of _summarizing is
\* dropped, reply_msg stays None and memory.add(None) adds nothing
BrowserSummarizing ==
    /\ b_pc = "loop"
    /\ b_iter = MaxBrowserIters
    /\ b_pc' = "idle"
    /\ b_last' = BrowserRecord("_summarizing", << >>, FALSE, FALSE, b_memory)
    /\ UNCHANGED << dr_vars, planner_vars, b_parallel, b_memory, b_replies, b_steps, b_iter,
                    b_calls, b_responses, b_subtasks, b_subtask_idx,
                    b_current >>

InitBrowser ==
    /\ max_depth = 1
    /\ DeepResearchStart
    /\ b_parallel \in BOOLEAN
    /\ BrowserStart
    /\ PlannerStart

NextBrowser ==
    \/ \E n \in 0..MaxSubtasks : BrowserReply(n)
    \/ \E blocks \in ToolUseBlocks, cancelled \in BOOLEAN :
          PureReasoning(blocks, cancelled)
    \/ \E blocks \in ToolUseBlocks, cancelled \in BOOLEAN :
          ReasoningWithObservation(blocks, cancelled)
    \/ \E i \in 1..MaxToolCalls :
          \E out \in (IF b_pc = "acting" /\ i \in DOMAIN b_calls
                       THEN ActingOutcomes(b_calls[i].name) ELSE {}) :
              Acting(i, out)
    \/ Join
    \/ BrowserSummarizing

SpecBrowser == InitBrowser /\ [][NextBrowser]_vars

\* -------------------------------------------- the meta planner: operations
\* The hooks work on the pair (memory, saved state).
\* planner_load_states_pre_reply_hook
planner_load_states_pre_reply_hook(st) ==
    IF st.saved = << >> THEN st
    ELSE [st EXCEPT !.memory = st.saved[1].memory]

\* update_user_input_pre_reply_hook
update_user_input_pre_reply_hook(st) ==
    [st EXCEPT !.memory = Append(st.memory, PlannerMsg("user_input", st.step))]

\* planner_compose_reasoning_msg_pre_reasoning_hook
planner_compose_reasoning_msg_pre_reasoning_hook(st) ==
    [st EXCEPT !.memory =
                   Append(st.memory, PlannerMsg("reasoning_prompt", st.step))]

\* planner_remove_reasoning_msg_post_reasoning_hook
planner_remove_reasoning_msg_post_reasoning_hook(st) ==
    LET n == Len(st.memory)
    IN  IF n > 1
        THEN [st EXCEPT !.memory = SubSeq(st.memory, 1, n - 2)
                                       \o << st.memory[n] >>]
        ELSE st

\* _update_and_save_state_with_session
_update_and_save_state_with_session(st, stage) ==
    [st EXCEPT !.saved = << [memory |-> st.memory, stage |-> stage,
                            step |-> st.step] >>]

\* save_post_reasoning_state
save_post_reasoning_state(st) ==
    _update_and_save_state_with_session(st, "post_reasoning")

\* save_post_action_state
save_post_action_state(st) ==
    _update_and_save_state_with_session(st, "post_acting")

\* generate_response_post_action_hook only prints
generate_response_post_action_hook(st) == st

\* the registrations of MetaPlanner.__init__, in the order they are made
HookRegistry ==
    [pre_reply |-> << "planner_load_states_pre_reply_hook",
                      "update_user_input_to_notebook_pre_reply_hook" >>,
     pre_reasoning |-> << "planner_compose_reasoning_msg_pre_reasoning_hook" >>,
     post_reasoning |-> << "planner_remove_reasoning_msg_post_reasoning_hook",
                           "save_state_post_reasoning_hook" >>,
     post_acting |-> << "save_post_action_state",
                        "generate_response_post_action_hook" >>]

CallHook(name, st) ==
    CASE name = "planner_load_states_pre_reply_hook" ->
             planner_load_states_pre_reply_hook(st)
      [] name = "update_user_input_to_notebook_pre_reply_hook" ->
             update_user_input_pre_reply_hook(st)
      [] name = "planner_compose_reasoning_msg_pre_reasoning_hook" ->
             planner_compose_reasoning_msg_pre_reasoning_hook(st)
      [] name = "planner_remove_reasoning_msg_post_reasoning_hook" ->
             planner_remove_reasoning_msg_post_reasoning_hook(st)
      [] name = "save_state_post_reasoning_hook" ->
             save_post_reasoning_state(st)
      [] name = "save_post_action_state" -> save_post_action_state(st)
      [] name = "generate_response_post_action_hook" ->
             generate_response_post_action_hook(st)

\* the hooks of one stage, one after the other in registration order
RECURSIVE RunHooks(_, _)
RunHooks(names, st) ==
    IF names = << >> THEN st
    ELSE RunHooks(Tail(names), CallHook(Head(names), st))

\* create_worker: the tool names must be available; the record is stored
\* under its name, in place of a record already stored under that name
create_worker(pool, name, description, tools) ==
    IF ~(tools \subseteq FullToolset) THEN pool
    ELSE [n \in (DOMAIN pool) \cup {name} |->
              IF n = name THEN WorkerRecord(description, tools) ELSE pool[n]]

\* WorkerManager(...): a manager that holds no worker yet
WorkerManager == << >>

\* register_worker, as arun_agents calls it for the browser agent
browser_agent == "Browser_Agent"
register_worker(pool, name, description, worker_type) ==
    [n \in (DOMAIN pool) \cup {name} |->
         IF n = name
         THEN [description |-> description, worker_type |-> worker_type,
               toolset |-> {}]
         ELSE pool[n]]

\* execute_worker, on the pool and the planner's memory: a name that is not
\* in the pool is answered with a WorkerNotFound tool error; a worker that
\* is in the pool runs the subtask in its own loop and memory.
\* (preceded by a variant that makes the missing worker on demand)
execute_worker_on_demand(st, name) ==
    IF name \in DOMAIN st.pool
    THEN [st |-> st, text |-> "worker_response"]
    ELSE [st |-> [st EXCEPT !.pool = create_worker(st.pool, name, "d1", {})],
          text |-> "worker_response"]

execute_worker(st, name) ==
    IF name \in DOMAIN st.pool
    THEN [st |-> st, text |-> "worker_response"]
    ELSE [st |-> st, text |-> "WorkerNotFound"]

\* prepare_planner_tools: the pool is the one of the WorkerManager it makes
prepare_planner_tools(pool) == WorkerManager

\* resume_planner_tools
resume_planner_tools(pool) == prepare_planner_tools(pool)

\* ----------------------------------------------- the meta planner: machine
PlannerState == [memory |-> p_memory, saved |-> p_saved, step |-> p_steps]

\* a reply begins: the pre-reply hooks, then the message is put in memory
PlannerReply ==
    /\ p_pc = "idle"
    /\ p_replies < MaxPlannerReplies
    /\ LET st == RunHooks(HookRegistry.pre_reply, PlannerState)
       IN  /\ p_memory' = Append(st.memory, PlannerMsg("user", p_steps))
           /\ p_saved' = st.saved
    /\ p_replies' = p_replies + 1
    /\ p_pc' = "reasoning"
    /\ p_call' = NoCall
    /\ p_iters' = 0
    /\ p_last' = [PlannerRecord("reply", NoCall, FALSE, p_pool)
                    EXCEPT !.ran = HookRegistry.pre_reply]
    /\ UNCHANGED << dr_vars, browser_vars, p_pool, p_steps,
                    p_init_max_iters, p_max_iters, p_agent >>

\* one reasoning step inside its hooks: the pre-reasoning hooks, the model
\* call (which raises, or answers with one call of a tool it is offered,
\* which is put in memory),
\* then, when it answered, the post-reasoning hooks
PlannerReasoning(call, raises) ==
    /\ p_pc = "reasoning"
    /\ Callable(p_agent, call.tool)
    /\ p_iters < p_max_iters
    /\ p_steps < MaxPlannerSteps
    /\ p_steps' = p_steps + 1
    /\ p_iters' = p_iters + 1
    /\ LET st0 == [PlannerState EXCEPT !.step = p_steps + 1]
           st1 == RunHooks(HookRegistry.pre_reasoning, st0)
           st2 == [st1 EXCEPT !.memory =
                       Append(st1.memory, PlannerMsg("reasoning", st0.step))]
           st3 == RunHooks(HookRegistry.post_reasoning, st2)
           st == IF raises THEN st1 ELSE st3
       IN  /\ p_memory' = st.memory
           /\ p_saved' = st.saved
           /\ p_pc' = IF raises THEN "idle" ELSE "acting"
           /\ p_call' = IF raises THEN NoCall ELSE call
           /\ p_last' = [PlannerRecord("reasoning",
                                       IF raises THEN NoCall ELSE call,
                                       raises, p_pool)
                           EXCEPT !.step = st0.step,
                                  !.ran = HookRegistry.pre_reasoning
                                          \o (IF raises THEN << >>
                                              ELSE HookRegistry.post_reasoning)]
    /\ UNCHANGED << dr_vars, browser_vars, p_pool, p_replies,
                    p_init_max_iters, p_max_iters, p_agent >>

\* the tool call is executed, its result is put in memory, then the
\* post-acting hooks
PlannerActing ==
    /\ p_pc = "acting"
    /\ LET pre == [pool |-> p_pool, memory |-> p_memory]
           r == IF p_call.tool = "create_worker"
                THEN [st |-> [pre EXCEPT !.pool =
                                  create_worker(p_pool, p_call.name,
                                                p_call.description,
                                                p_call.tools)],
                      text |-> "created"]
                ELSE IF p_call.tool = "execute_worker"
                THEN execute_worker(pre, p_call.name)
                ELSE [st |-> pre, text |-> "none"]
           st0 == [PlannerState EXCEPT !.memory =
                       Append(r.st.memory,
                              PlannerMsg("tool_result", p_steps))]
           st == RunHooks(HookRegistry.post_acting, st0)
       IN  /\ p_memory' = st.memory
           /\ p_saved' = st.saved
           /\ p_pool' = r.st.pool
           /\ p_agent' = IF p_call.tool = "enter_planning_execution_mode"
                         THEN enter_planning_execution_mode(p_agent)
                         ELSE IF p_call.tool = "enter_easy_task_mode"
                         THEN enter_easy_task_mode(p_agent)
                         ELSE p_agent
           /\ p_last' = [PlannerRecord("acting", p_call, FALSE, p_pool)
                           EXCEPT !.step = p_steps,
                                  !.ran = HookRegistry.post_acting,
                                  !.called = << [pre |-> pre, post |-> r.st,
                                                 text |-> r.text] >>]
    /\ p_pc' = IF p_call.tool = "generate_response" THEN "idle"
               ELSE "reasoning"
    /\ UNCHANGED << dr_vars, browser_vars, p_replies, p_steps, p_call,
                    p_init_max_iters, p_max_iters, p_iters >>

\* the reply loop has made self.max_iters iterations without a final
\* response: the reply ends with a summary of the memory
PlannerSummarizing ==
    /\ p_pc = "reasoning"
    /\ p_iters >= p_max_iters
    /\ p_memory' = Append(p_memory, PlannerMsg("summary", p_steps))
    /\ p_pc' = "idle"
    /\ p_last' = [PlannerRecord("summarizing", NoCall, FALSE, p_pool)
                    EXCEPT !.step = p_steps]
    /\ UNCHANGED << dr_vars, browser_vars, p_saved, p_pool, p_replies,
                    p_steps, p_call, p_init_max_iters, p_max_iters,
                    p_iters, p_agent >>

\* arun_agents registers the browser agent as a built-in worker, before the
\* first reply
PlannerRegisterWorker ==
    /\ p_pc = "idle"
    /\ p_replies = 0
    /\ browser_agent \notin DOMAIN p_pool
    /\ p_pool' = register_worker(p_pool, browser_agent,
                                 "browser", "built-in")
    /\ p_last' = PlannerRecord("register_worker", NoCall, FALSE, p_pool)
    /\ UNCHANGED << dr_vars, browser_vars, p_memory, p_saved, p_pc,
                    p_replies, p_steps, p_call, p_init_max_iters,
                    p_max_iters, p_iters, p_agent >>

\* resume_planner_tools, between two replies
PlannerResumeTools ==
    /\ p_pc = "idle"
    /\ p_pool' = resume_planner_tools(p_pool)
    /\ p_agent' = resume_planner_tools_mode(p_agent)
    /\ p_last' = PlannerRecord("resume_planner_tools", NoCall, FALSE, p_pool)
    /\ UNCHANGED << dr_vars, browser_vars, p_memory, p_saved, p_pc,
                    p_replies, p_steps, p_call, p_init_max_iters,
                    p_max_iters, p_iters >>

InitPlanner ==
    /\ max_depth = 1
    /\ DeepResearchStart
    /\ b_parallel = FALSE
    /\ BrowserStart
    /\ \E max_iters \in 1..MaxPlannerMaxIters,
          PLANNER_MAX_ITER \in 1..MaxAgentMaxIter :
          MetaPlannerInit(max_iters, PLANNER_MAX_ITER)
    /\ \E planner_mode \in PlannerModes, file_tools \in BOOLEAN :
          p_agent = PlannerModeInit(planner_mode, file_tools)

NextPlanner ==
    \/ PlannerReply
    \/ \E call \in PlannerCalls, raises \in BOOLEAN :
          PlannerReasoning(call, raises)
    \/ PlannerActing
    \/ PlannerSummarizing
    \/ PlannerRegisterWorker
    \/ PlannerResumeTools

SpecPlanner == InitPlanner /\ [][NextPlanner]_vars

\* ------------------------------------------------------------ properties
ReflectCalled == last.op = "reflect_failure"
FollowUpJudged == last.op = "pre_reasoning" /\ last.input.judged
AsksDecompose(refl) == refl.decompose \in {"yes", "yes_noobj"}
AsksRephrase(refl) == refl.rephrase \in {"yes", "yes_noplan"}
Pushed == Len(current_subtask) = Len(last.pre) + 1
PlanReplaced ==
    /\ Len(last.pre) > 0
    /\ Len(current_subtask) >= Len(last.pre)
    /\ current_subtask[Len(last.pre)].working_plan # Top(last.pre).working_plan

\* C1: whatever sequence of pushes and pops has happened (root creation in
\* the pre-reply hook, follow-up push, reflection push, finish_current_subtask,
\* generate_response), the stack length is between 0 and max_depth + 1.
C1_DepthInvariant ==
    Len(current_subtask) >= 0 /\ Len(current_subtask) <= max_depth + 1

Malformed(refl) ==
    \/ refl.raised
    \/ refl.rephrase \in {"missing", "yes_noplan"}
    \/ refl.decompose \in {"missing", "yes_noobj"}

C5_NoActionOnMalformed ==
    (ReflectCalled /\ Malformed(last.input))
        => /\ current_subtask = last.pre
           /\ last.ord = 0
           /\ last.returned
           /\ last.text = "retry_hint"

\* C6: when the decomposition model call fails or returns unparseable
\* output, decompose_and_expand_subtask returns the retry hint and leaves the
\* stack length unchanged with the active subtask's plan and gaps null; a
\* pre-reasoning hook that ends with the active subtask without a plan has
\* attempted the decomposition.
C6_RetryHintOnFailure ==
    /\ (last.op \in {"pre_reply", "pre_reasoning"}
            /\ last.input.decompose \in {"raise", "empty"})
         => /\ last.decomposed = "retry_hint"
            /\ Len(current_subtask) = Len(last.post)
            /\ Top(current_subtask).working_plan = NULL
            /\ Top(current_subtask).knowledge_gaps = NULL
    /\ (last.op = "pre_reasoning" /\ ~last.raised
            /\ Top(current_subtask).working_plan = NULL)
         => last.decomposed # "none"

\* C7: generate_response reports success (a persisted final report) exactly
\* when its pop empties the stack; with more than one subtask on the stack
\* it removes only the top record, writes no final report and reports
\* success = False, so that the reply continues.
C7_SuccessIffEmptied ==
    last.op = "generate_response" =>
        /\ (last.success = "true") <=> (Len(last.pre) = 1)
        /\ last.success = "true" => last.wrote_final
        /\ Len(last.pre) > 1
             => /\ current_subtask = Pop(last.pre)
                /\ ~last.wrote_final
                /\ last.success = "false"
                /\ pc = "pre_reasoning"

\* C8: finish_current_subtask with only the root on the stack leaves the
\* stack unchanged and returns a tool response with success = False.
C8_UnderflowIsResponse ==
    (last.op = "finish_current_subtask" /\ Len(last.pre) = 1)
        => /\ current_subtask = last.pre
           /\ last.returned
           /\ last.success = "false"

\* C9: the ordinals of the intermediate report files written so far are
\* exactly 1..k for some k, and each summary names the next ordinal.
C9_OrdinalsContiguous ==
    /\ files = 1..Cardinality(files)
    /\ last.ord # 0 => last.ord = report_index - 1

\* C10: when intermediate reports exist, the final report reads exactly the
\* report files written so far, each once, in increasing ordinal order.
FinalReportAttempted ==
    \/ last.op = "generate_response" /\ Len(last.pre) = 1
    \/ last.op = "_summarizing" /\ Len(last.pre) > 0

C10_ReadsWhatWasWritten ==
    (FinalReportAttempted /\ files # {})
        => /\ { last.reads[i] : i \in DOMAIN last.reads } = files
           /\ \A i, j \in DOMAIN last.reads :
                  i < j => last.reads[i] < last.reads[j]

\* C11: every report artifact is immutable once written: over any sequence of
\* summaries and final-report generations of one agent instance, several
\* replies included, no file path is written a second time (the final report
\* path is written at most once, and every intermediate ordinal already
\* written lies below the ordinal the next summary will write).
C11_WrittenOnce ==
    /\ detailed_writes <= 1
    /\ \A k \in files : k < report_index

\* C12: after summarize_intermediate_results has written an intermediate
\* report, the tool-use (reasoning) and tool-result messages accumulated
\* since the last report boundary are no longer in memory, whether the agent
\* invoked the summarize tool itself or the follow-up judge or the reflection
\* invoked it.
C12_SummarizedSpanRemoved ==
    (last.ord # 0 /\ last.ord \in files) => last.kept = 0

\* C13: when the follow-up judge proposes further exploration and
\* len(stack) < max_depth, the intermediate report of the current subtask is
\* written first, with heading depth equal to the stack length before the
\* push, and only then is the new record appended, carrying the proposed
\* objective and null plan and gaps; when the judge does not propose
\* exploration, or the depth bound blocks it, no record is pushed and no
\* report is written.
ProposesChild ==
    /\ FollowUpJudged
    /\ last.input.judge.explore
    /\ last.input.judge.has_subtask
    /\ Len(last.pre) < max_depth
    /\ ~last.raised

C13_ReportThenPush ==
    /\ ProposesChild
         => /\ last.ord # 0
            /\ last.ord \in files
            /\ last.depth = Len(last.pre)
            /\ Len(last.post) = Len(last.pre) + 1
            /\ Top(last.post) = SubTaskItem(SubObjective)
    /\ (FollowUpJudged
            /\ (~last.input.judge.explore \/ Len(last.pre) >= max_depth))
         => (Len(last.post) = Len(last.pre) /\ last.ord = 0)

\* C14: every completed search tool call is buffered by the post-acting hook
\* and is included in exactly one follow-up judgment, made by the next
\* pre-reasoning hook before the reasoning prompt is composed; after a
\* pre-reasoning hook completes the search-call buffer is empty.
C14_JudgedExactlyOnce ==
    /\ last.op = "search"
         => /\ Len(search_call_buffer) > 0
            /\ search_call_buffer[Len(search_call_buffer)] = CallId
    /\ (last.op = "pre_reasoning" /\ ~last.raised)
         => search_call_buffer = << >>
    /\ pc = "reasoning" => search_call_buffer = << >>
    /\ ~last.again

\* C15: whenever the pre-reasoning hook runs and the active subtask has no
\* working plan, a decomposition is attempted for that subtask in the same
\* cycle (the model is asked for a plan), and when the model returns valid
\* output the active subtask has a working plan at the end of the hook, at
\* every stack depth that is reachable.
C15_DecomposedWhenNoPlan ==
    (last.op = "pre_reasoning" /\ ~last.raised)
        => /\ Top(last.post).working_plan = NULL
                => last.decomposed \in {"json", "retry_hint"}
           /\ last.input.decompose \notin {"raise", "empty"}
                => Top(current_subtask).working_plan # NULL

\* C19: pop/push symmetry. When finish_current_subtask pops right after a
\* push by the follow-up judge or by reflection (nothing changed the stack in
\* between), the record it takes off has the pushed objective and null
\* working_plan and knowledge_gaps, and the stack is again the stack the
\* record was pushed on.
PoppedAfterPush ==
    /\ last.op \in {"finish_current_subtask", "generate_response"}
    /\ Len(last.was_on) = 1
    /\ ~last.raised

C19_PopPushSymmetry ==
    PoppedAfterPush =>
        /\ last.popped = << SubTaskItem(SubObjective) >>
        /\ last.post = last.was_on[1]
        /\ current_subtask = last.was_on[1]

C19_Witness ==
    /\ PoppedAfterPush
    /\ last.op = "finish_current_subtask"
    /\ Len(last.post) >= 1
    /\ last.popped = << SubTaskItem(SubObjective) >>
\* C16: when a reasoning call is cancelled while its output is received, in
\* the pure-reasoning step as in the observation-reasoning step, the partial
\* reasoning message is in memory followed by one synthetic interrupted
\* result for each of its tool_use blocks, and the cancellation is raised.
ReasoningCancelled ==
    /\ b_last.op \in {"_pure_reasoning", "_reasoning_with_observation"}
    /\ b_last.cancelled

InterruptionRecorded ==
    LET n == Len(b_last.blocks)
        at == Len(b_memory) - n
    IN  /\ at >= 1
        /\ b_memory[at] = BrowserReasoningMsg(b_last.blocks, b_last.id)
        /\ \A i \in 1..n :
               b_memory[at + i] =
                   InterruptedResMsg(<< b_last.id[1], b_last.id[2],
                                        b_last.id[3], i >>)

C16_InterruptionRecorded ==
    ReasoningCancelled => b_last.raised /\ InterruptionRecorded

\* C17: when a reasoning step yields several tool calls, run one after the
\* other or concurrently, the reply message is the first non-null response
\* in tool-call order, and the result of every tool call of the step is
\* recorded in memory.
Joined == b_last.op = "join"

FirstInOrder ==
    \/ /\ \A i \in DOMAIN b_responses : b_responses[i] = "none"
       /\ b_last.returned = << >>
    \/ \E i \in DOMAIN b_responses :
          /\ b_responses[i] # "none"
          /\ \A j \in 1..(i - 1) : b_responses[j] = "none"
          /\ b_last.returned = << ActingMsg(b_calls[i], b_responses[i]) >>

ResultRecorded(call) ==
    \E k \in DOMAIN b_memory :
        /\ b_memory[k].kind \in {"tool_result", "interrupted_result"}
        /\ b_memory[k].id = call.id

C17_FirstResponseAllRecorded ==
    Joined => /\ FirstInOrder
              /\ \A i \in DOMAIN b_calls : ResultRecorded(b_calls[i])

\* C18: the hooks of one stage run one after the other in registration
\* order; the planner's post-reasoning hook that removes the reasoning prompt
\* runs before the hook that saves the state, so that no state saved after
\* reasoning holds a reasoning prompt message.
SavedAfterReasoning ==
    /\ p_last.op = "reasoning"
    /\ ~p_last.raised

HoldsPrompt(mem) ==
    \E i \in DOMAIN mem : mem[i].kind = "reasoning_prompt"

C18_NoPromptInSavedState ==
    SavedAfterReasoning =>
        /\ p_last.ran = HookRegistry.pre_reasoning
                            \o HookRegistry.post_reasoning
        /\ p_saved # << >>
        /\ p_saved[1].stage = "post_reasoning"
        /\ ~HoldsPrompt(p_saved[1].memory)

\* C20: create_worker called with a name that is already in the pool leaves
\* exactly one entry of that name, with the description and the toolset of
\* the first call.
CreatedAgain ==
    /\ p_last.op = "acting"
    /\ p_last.call.tool = "create_worker"
    /\ p_last.call.name \in DOMAIN p_last.pre_pool

C20_IdempotentCreation ==
    CreatedAgain =>
        /\ DOMAIN p_pool = DOMAIN p_last.pre_pool
        /\ p_pool[p_last.call.name] = p_last.pre_pool[p_last.call.name]

\* C30: BrowserAgent.reply makes at most max_iters iterations and returns a
\* reply message on every path; when no tool call gave a response within
\* max_iters iterations, the message of the summarizing step is returned and
\* stored in memory.
ReplyReturned ==
    \/ b_last.op = "_summarizing"
    \/ b_last.op = "join" /\ b_pc = "idle"

C30_ReplyNeverNull ==
    /\ b_iter <= MaxBrowserIters
    /\ ReplyReturned =>
           /\ b_last.returned # << >>
           /\ Len(b_memory) >= 1
           /\ b_memory[Len(b_memory)] = b_last.returned[1]

\* C28: the reasoning prompt the pre-reasoning hook appends to memory is
\* removed by the post-reasoning hook of the same cycle: the prompt is the
\* last message when reasoning starts, reasoning adds its output after it,
\* and the hook deletes the prompt and no other message, so that memory is
\* the memory before the prompt plus the reasoning output.
PromptAppended ==
    (pc = "pre_reasoning" /\ pc' = "reasoning") =>
        /\ Len(memory') >= 1
        /\ memory'[Len(memory')] = PromptMsg

OutputAppended ==
    (pc = "reasoning" /\ pc' = "post_reasoning") =>
        memory' = Append(memory, ReasoningMsg(tool_call'))

PromptDeleted ==
    (pc = "post_reasoning" /\ pc' = "acting") =>
        LET n == Len(memory)
        IN  /\ n >= 2
            /\ memory[n - 1] = PromptMsg
            /\ memory' = SubSeq(memory, 1, n - 2) \o << memory[n] >>

C28_PromptRemoved ==
    [][PromptAppended /\ OutputAppended /\ PromptDeleted]_vars

C28_Witness ==
    /\ last.op = "post_reasoning"
    /\ Len(memory) >= 2
    /\ memory[Len(memory)] = ReasoningMsg(tool_call)
    /\ \E i \in DOMAIN memory : memory[i] = PromptMsg

\* C27: memory compaction deletes only a contiguous suffix of memory and
\* never a user-role message, a report-boundary message or a message that
\* carries the summarize tool call; every message up to the first such
\* message met walking backward is left as it was.
Compacted == last.compacted # << >>

Protected(msg) ==
    \/ msg.role = "user"
    \/ msg.report
    \/ msg.use = summarize_function

C27_OnlySuffixDeleted ==
    Compacted =>
        LET from == last.compacted[1].from
            to == last.compacted[1].to
        IN  /\ Len(to) <= Len(from)
            /\ to = SubSeq(from, 1, Len(to))
            /\ \A i \in (Len(to) + 1)..Len(from) : ~Protected(from[i])
            /\ \A i \in DOMAIN from : Protected(from[i]) => to[i] = from[i]

C27_Witness ==
    /\ Compacted
    /\ Len(last.compacted[1].to) < Len(last.compacted[1].from)
    /\ Len(last.compacted[1].to) >= 1
    /\ Protected(last.compacted[1].to[Len(last.compacted[1].to)])

\* C26: summarize_intermediate_results treats a call as agent-invoked
\* consistently. When the last message since the report boundary is the
\* agent's own summarize tool call, it revises the knowledge gaps of the
\* active subtask and returns the report in place (no note is appended);
\* otherwise it does neither and appends the report to memory as an
\* assistant note flagged as a report boundary.
AgentInvoked(c) == c.from[Len(c.from)].use = summarize_function

C26_AgentInvokedConsistently ==
    Compacted =>
        LET c == last.compacted[1]
        IN  /\ AgentInvoked(c) => c.revised /\ c.after = c.to
            /\ ~AgentInvoked(c) =>
                   /\ ~c.revised
                   /\ c.after = Append(c.to, ReportMsg)
                   /\ ReportMsg.report /\ ReportMsg.role = "assistant"

\* C24: an operation that revises a subtask changes only the top record of
\* the stack and only the fields it is given. Records below the top are
\* never modified, a follow-up judgment with an empty or absent revision
\* leaves knowledge_gaps unchanged, a rephrase changes working_plan only, and
\* a decomposition changes the fields its payload holds.
DecompositionGave(i) ==
    /\ last.op \in {"pre_reply", "pre_reasoning"}
    /\ last.input.decompose = "full"
    /\ i = Len(last.mid)

RevisionGave(i) ==
    /\ last.op = "pre_reasoning"
    /\ last.input.judged
    /\ last.input.judge.revision # ""
    /\ i = Len(last.pre)

SummaryGave(i) ==
    /\ Compacted
    /\ AgentInvoked(last.compacted[1])
    /\ i = Len(last.pre)

RephraseGave(i) ==
    /\ last.op = "reflect_failure"
    /\ reflect_branch(last.input) = "rephrase"
    /\ last.input.rephrase = "yes"
    /\ i = Len(last.pre)

\* the operation itself: last.pre to last.mid
OperationFrame ==
    \A i \in 1..Len(last.pre) :
        i <= Len(last.mid) =>
            /\ last.mid[i].objective = last.pre[i].objective
            /\ last.mid[i].knowledge_gaps # last.pre[i].knowledge_gaps =>
                   RevisionGave(i) \/ SummaryGave(i)
            /\ last.mid[i].working_plan # last.pre[i].working_plan =>
                   RephraseGave(i)

\* the decomposition a hook ends with: last.mid to the stack it leaves
DecompositionFrame ==
    last.op \in {"pre_reply", "pre_reasoning"} =>
        /\ Len(current_subtask) = Len(last.mid)
        /\ \A i \in 1..Len(last.mid) :
               current_subtask[i] # last.mid[i] =>
                   /\ DecompositionGave(i)
                   /\ current_subtask[i].objective = last.mid[i].objective

C24_RevisionFrame == OperationFrame /\ DecompositionFrame

\* C25: the request that synthesizes the final report carries the root
\* checklist (the root record's knowledge_gaps, read before the root is
\* popped) and the original user query.
ReportRequested ==
    /\ last.op \in {"generate_response", "_summarizing"}
    /\ last.request # << >>

C25_RequestCarriesChecklist ==
    ReportRequested =>
        /\ last.request[1].system.checklist =
               << last.pre[1].knowledge_gaps >>
        /\ last.request[1].system.original_task = << user_query >>

\* C29: when the iteration budget runs out, _summarizing writes the final
\* report without popping the stack and returns a message whose metadata is
\* a worker response with task_done = False and generated_files a mapping
\* from the final report path to a description.
FallbackReturned == last.op = "_summarizing" /\ ~last.raised

C29_FallbackResponse ==
    FallbackReturned =>
        /\ current_subtask = last.pre
        /\ last.response # << >>
        /\ last.response[1].task_done = FALSE
        /\ last.response[1].generated_files.type = "dict"
        /\ last.response[1].generated_files.path = detailed_report_path

\* C21: executing a worker whose name is not in the pool returns a
\* WorkerNotFound tool-level error and changes nothing: the worker pool and
\* the memory are as they were before the call (the planner then records the
\* tool result and nothing else), and the planner goes on to its next
\* reasoning step, where the call can be made again.
ExecutedUnknown ==
    /\ p_last.op = "acting"
    /\ p_last.call.tool = "execute_worker"
    /\ p_last.call.name \notin DOMAIN p_last.pre_pool

C22_PoolOnlyGrows ==
    [][\A n \in DOMAIN p_pool : n \in DOMAIN p_pool']_vars

\* C23: state snapshot round trip. After the agent's state is saved to the
\* session store and loaded into a new instance of the same agent, the
\* restored subtask stack equals the stack at the moment of saving.
StateLoaded == last.op = "load_state"

C23_SnapshotRoundTrip ==
    StateLoaded => current_subtask = last.pre

\* C34: at the first pre-reasoning step of every reply the subtask stack
\* consists of exactly one record, the root, whose objective is that reply's
\* user query, also when the previous reply on the same instance ended with
\* an error or a cancellation; after a reply that returns normally the stack
\* is empty.
FirstPreReasoning == pc = "pre_reasoning" /\ iters = 0 /\ last.op = "reply"
ReturnedNormally == last.op = "post_reply"

RootAlone ==
    /\ Len(current_subtask) = 1
    /\ current_subtask[1].objective = Query(replies)

C34_RootAloneAtReplyStart ==
    /\ FirstPreReasoning => RootAlone
    /\ ReturnedNormally => current_subtask = << >>

\* C35: if final-report generation fails inside generate_response, the
\* subtask stack is the same as before the call (the root record is not
\* lost), so that any later pre-reasoning step, summarize or reflection still
\* finds an active subtask.
ReportFailed ==
    /\ last.op = "generate_response"
    /\ Len(last.pre) = 1
    /\ last.raised

C35_RootKeptOnFailure ==
    /\ ReportFailed => current_subtask = last.pre
    /\ pc \in {"pre_reasoning", "reasoning", "post_reasoning", "acting"}
           => Len(current_subtask) > 0

\* C36: no search tool call buffered during one reply is judged by the
\* follow-up judge during a later reply: however a reply ends (final
\* response, iteration budget exhausted, error), the search-call buffer is
\* empty when the next reply starts.
ReplyStarts == last.op = "pre_reply"

JudgedInOwnReply ==
    last.op = "pre_reasoning" =>
        \A i \in DOMAIN last.calls : last.calls[i][1] = replies

C36_NoStaleSearchCalls ==
    /\ ReplyStarts => search_call_buffer = << >>
    /\ JudgedInOwnReply

\* C31: whenever the memory size exceeds max_memory_length at the start of a
\* browser-agent iteration, memory is cleared and refilled with the first
\* user message (when one exists) followed by one summary message, so that
\* memory then holds at most two messages and the initial user question is
\* preserved.
UserMessages(mem) == { i \in DOMAIN mem : mem[i].role = "user" }

FirstUserMessage(mem) ==
    mem[CHOOSE i \in UserMessages(mem) : \A j \in UserMessages(mem) : i <= j]

IterationStartsLong ==
    /\ b_pc = "loop"
    /\ b_last'.op = "_pure_reasoning"
    /\ Len(b_memory) > MaxMemLength

SummarizedForm(m, mem) ==
    /\ Len(m) <= 2
    /\ m[Len(m)].kind = "summary"
    /\ IF UserMessages(mem) # {}
       THEN /\ Len(m) = 2
            /\ m[1].role = "user"
            /\ m[1].id = FirstUserMessage(mem).id
       ELSE Len(m) = 1

ManagerCalled ==
    /\ b_pc = "acting"
    /\ b_last'.op = "_acting"
    /\ b_last'.blocks = << browser_subtask_manager >>

ManagerJudges == b_subtasks # 0 /\ b_current # "none"

C32_IndexAdvancesOnCompletion ==
    [][ManagerCalled =>
           IF ManagerJudges /\ b_last'.out = "completed"
           THEN b_subtask_idx' = b_subtask_idx + 1
           ELSE b_subtask_idx' = b_subtask_idx]_vars

\* C37: when the tool calls of one browser-agent reasoning step are executed
\* (sequentially, or concurrently under parallel_tool_calls) and one of them
\* is browser_subtask_manager, the memory clean-up done for it removes only
\* the reasoning message that issued it and never the recorded result of
\* another tool call of the same step; after the step every tool_use block
\* left in memory has its tool result in memory.
ManagerCleanedUp ==
    /\ b_last.op = "_acting"
    /\ b_last.blocks = << browser_subtask_manager >>
    /\ b_last.pre # << >>

IssuedBy(msg, id) ==
    /\ msg.kind = "reasoning"
    /\ << msg.id[1], msg.id[2], msg.id[3] >> = << id[1], id[2], id[3] >>

HasResult(mem, msg, i) ==
    \E k \in DOMAIN mem :
        /\ mem[k].kind \in {"tool_result", "interrupted_result"}
        /\ mem[k].id = << msg.id[1], msg.id[2], msg.id[3], i >>

StepDone == b_last.op = "join"

C37_CleanUpRemovesOwnMessage ==
    /\ ManagerCleanedUp =>
           /\ IssuedBy(b_last.pre[Len(b_last.pre)], b_last.id)
           /\ b_memory = DeleteLast(b_last.pre)
    /\ StepDone =>
           \A k \in DOMAIN b_memory :
               b_memory[k].kind = "reasoning" =>
                   \A i \in DOMAIN b_memory[k].uses :
                       HasResult(b_memory, b_memory[k], i)

\* C33: the meta planner's iteration limit is the max_iters passed to its
\* constructor: in no reply does it perform more planning iterations than
\* that value (the reply loop itself stops at self.max_iters).
PlannerIterating == p_last.op \in {"reasoning", "acting", "summarizing"}

C33_IterationsWithinPassedLimit ==
    PlannerIterating => p_iters <= p_init_max_iters

\* C38: for a meta planner in dynamic mode, the planning tool group is
\* active exactly when work_pattern is "planner", after any sequence of
\* enter_planning_execution_mode, enter_easy_task_mode and
\* resume_planner_tools calls; in the initial "simplest" pattern it is
\* inactive.
DynamicMode == p_agent.planner_mode = "dynamic"

C38_PlanningActiveIffPlannerPattern ==
    DynamicMode => (p_agent.planning <=> p_agent.work_pattern = "planner")

====
